---- MODULE Spec2Model ----
(***************************************************************************)
(* A model of the query_builder module of pinto (src/src/lib.rs): the four *)
(* SQL builders Delete, Insert, Select and Update, their chained           *)
(* configuration methods, the shared text-joining helper join and the      *)
(* terminal build() renderers.                                             *)
(*                                                                         *)
(* Text.  A rendered string is a sequence of tokens: every string literal  *)
(* of the source (" WHERE ", ", ", ";", ...) is one token, every           *)
(* caller-supplied fragment (&'a str) is one opaque token, and a number    *)
(* rendered by to_string is one token per decimal digit.  `query += x`     *)
(* is concatenation of token sequences.                                    *)
(*                                                                         *)
(* Panics.  A String-valued computation is a record                        *)
(*   [panic, s, joined]                                                    *)
(* panic: the computation panicked (no string is returned); s: the text;   *)
(* joined: the arguments v with which the shared helper join(v, sep) was   *)
(* invoked, in invocation order.                                           *)
(***************************************************************************)
EXTENDS Integers, Sequences, FiniteSets, TLC

VARIABLES
    overflow_checks, \* build profile: TRUE = arithmetic overflow panics (debug)
    active,          \* the kind of builder the caller constructed and drives
    del,             \* the Delete builder
    ins,             \* the Insert builder
    sel,             \* the Select builder
    upd,             \* the Update builder
    calls,           \* the arguments of the configuration calls made, per method
    last_call,       \* the name of the last configuration method called
    out,             \* the result of build() / Display on the current state
    prev             \* the result of the render before that one, on the same state

vars == <<overflow_checks, active, del, ins, sel, upd, calls, last_call, out, prev>>

-----------------------------------------------------------------------------
(* Bounds and input sets *)

MaxCalls == 3      \* configuration calls per builder
MaxRenderCalls == 2 \* configuration calls per builder that is rendered again and again
UsizeBits == 16    \* width of usize in the model (lengths stay far below 2^16)

Tables == {"users"}
Exprs == {"name = $1", "karma <= $2"}
SetFields == {"name", "karma"}
SetValues == {"$1", "$2"}
ReturnFields == {"id", "name"}
FieldLists == {<<>>, <<"id">>, <<"id", "name">>}
Groupings == {"name", "id"}
Havings == {"max > 100"}
OrderExprs == {"id"}
Directions == {"Asc", "Desc"}
JoinTables == {"posts", "users"}
JoinKinds == {"Left", "Inner"}
OnLefts == {"p.user_id"}
OnRights == {"users.id"}
AliasArgs == {<<"users", "u">>, <<"users", "p">>, <<"posts", "p">>, <<"tags", "u">>}
Numbers == {0, 15}

Kinds == {"Delete", "Insert", "Select", "Update"}

-----------------------------------------------------------------------------
(* Option<T> *)

None == [is_some |-> FALSE, val |-> <<>>]
Some(x) == [is_some |-> TRUE, val |-> x]

\* `if self.x.is_none() { self.x = Some(Vec::new()); }`
init_if_none(opt) == IF ~opt.is_some THEN Some(<<>>) ELSE opt

-----------------------------------------------------------------------------
(* String-valued computations *)

Str(s) == [panic |-> FALSE, s |-> s, joined |-> <<>>]

\* `a += b.as_str()`: b is evaluated after a; a panic in either aborts.
Cat(a, b) ==
    IF a.panic THEN a
    ELSE IF b.panic THEN [panic |-> TRUE, s |-> <<>>, joined |-> a.joined \o b.joined]
    ELSE [panic |-> FALSE, s |-> a.s \o b.s, joined |-> a.joined \o b.joined]

RECURSIVE CatAll(_)
CatAll(parts) ==
    IF Len(parts) = 0 THEN Str(<<>>)
    ELSE IF Len(parts) = 1 THEN parts[1]
    ELSE Cat(CatAll(SubSeq(parts, 1, Len(parts) - 1)), parts[Len(parts)])

UsizeModulus == 2 ^ UsizeBits

\* usize subtraction without overflow checks wraps around
wrapping_sub(a, b) == (a - b) % UsizeModulus

\* the `for (i, val) in v.iter().enumerate()` loop of join, from index i on
RECURSIVE join_loop(_, _, _, _, _)
join_loop(v, sep, last_i, i, s) ==
    IF i >= Len(v) THEN s
    ELSE join_loop(v, sep, last_i, i + 1,
                   (s \o <<v[i + 1]>>) \o (IF i # last_i THEN <<sep>> ELSE <<>>))

\* fn join(v: &[&str], sep: &str) -> String
join(v, sep) ==
    IF overflow_checks /\ Len(v) - 1 < 0
    THEN [panic |-> TRUE, s |-> <<>>, joined |-> <<v>>]
    ELSE [panic |-> FALSE,
          s |-> join_loop(v, sep, wrapping_sub(Len(v), 1), 0, <<>>),
          joined |-> <<v>>]

\* <[String]>::join(sep) of the standard library: total, "" on an empty slice
RECURSIVE slice_join(_, _)
slice_join(v, sep) ==
    IF Len(v) = 0 THEN <<>>
    ELSE IF Len(v) = 1 THEN v[1]
    ELSE (v[1] \o <<sep>>) \o slice_join(Tail(v), sep)

Digit(d) ==
    CASE d = 0 -> "0" [] d = 1 -> "1" [] d = 2 -> "2" [] d = 3 -> "3"
      [] d = 4 -> "4" [] d = 5 -> "5" [] d = 6 -> "6" [] d = 7 -> "7"
      [] d = 8 -> "8" [] d = 9 -> "9"

\* usize::to_string: the decimal digits, most significant first
RECURSIVE to_string(_)
to_string(n) ==
    IF n < 10 THEN <<Digit(n)>>
    ELSE to_string(n \div 10) \o <<Digit(n % 10)>>

-----------------------------------------------------------------------------
(* HashMap<&str, &str>                                                     *)
(* Insert.values / Update.values are enumerated by build, so the map is    *)
(* the sequence of its (key, value) entries in iteration order.  The       *)
(* iteration order is unspecified: inserting a new key may leave the       *)
(* entries in any order; overwriting a key moves nothing.                  *)
(* Select.aliases is only read with get, so it is the key -> value         *)
(* function alone.                                                         *)

Range(f) == {f[i] : i \in DOMAIN f}

Perms(S) ==
    {p \in [1..Cardinality(S) -> S] : \A i, j \in 1..Cardinality(S) : p[i] = p[j] => i = j}

HashMap_new == <<>>

\* insert that keeps the value of a key already in the map (first write wins)
HashMap_insert_keeps_first(m, k, v) ==
    IF \E i \in DOMAIN m : m[i][1] = k
    THEN {m}
    ELSE Perms(Range(m) \cup {<<k, v>>})

\* the maps `self.values.insert(k, v)` may leave behind
HashMap_insert(m, k, v) ==
    IF \E i \in DOMAIN m : m[i][1] = k
    THEN {[i \in DOMAIN m |-> IF m[i][1] = k THEN <<k, v>> ELSE m[i]]}
    ELSE Perms(Range(m) \cup {<<k, v>>})

EmptyAliases == [k \in {} |-> ""]

\* aliases.insert(table, alias)
aliases_insert(m, k, v) == [x \in DOMAIN m \cup {k} |-> IF x = k THEN v ELSE m[x]]

\* aliases.get(table)
aliases_get(m, k) == IF k \in DOMAIN m THEN Some(m[k]) ELSE None

-----------------------------------------------------------------------------
(* Delete *)

Delete_new(table) == [table |-> table, conditions |-> None]

Delete_filter(self, expr) ==
    LET c == init_if_none(self.conditions)
    IN [self EXCEPT !.conditions = Some(Append(c.val, expr))]

Delete_build(self) ==
    CatAll(<<Str(<<"DELETE FROM ">>),
             Str(<<self.table>>),
             IF self.conditions.is_some
             THEN Cat(Str(<<" WHERE ">>), join(self.conditions.val, " AND "))
             ELSE Str(<<>>),
             Str(<<";">>)>>)

\* impl fmt::Display: write!(f, "{}", self.build()) into the formatter f
Delete_fmt(self, f) == Cat(f, Delete_build(self))

-----------------------------------------------------------------------------
(* Insert *)

Insert_new(table) == [table |-> table, values |-> HashMap_new, returns |-> None]

\* the builders `set` may leave behind (one per iteration order of the map)
Insert_set(self, field, value) ==
    {[self EXCEPT !.values = m] : m \in HashMap_insert(self.values, field, value)}

Insert_returning(self, field) ==
    LET r == init_if_none(self.returns)
    IN [self EXCEPT !.returns = Some(Append(r.val, field))]

Insert_build(self) ==
    LET columns == [i \in 1..Len(self.values) |-> self.values[i][1]]
        values == [i \in 1..Len(self.values) |-> self.values[i][2]]
    IN CatAll(<<Str(<<"INSERT INTO ">>),
                Str(<<self.table>>),
                Str(<<" (">>),
                join(columns, ", "),
                Str(<<") VALUES (">>),
                join(values, ", "),
                Str(<<")">>),
                IF self.returns.is_some
                THEN Cat(Str(<<" RETURNING ">>), join(self.returns.val, ", "))
                ELSE Str(<<>>),
                Str(<<";">>)>>)

Insert_fmt(self, f) == Cat(f, Insert_build(self))

-----------------------------------------------------------------------------
(* Select *)

JoinClause(table, on_left, on_right, kind) ==
    [table |-> table, on_left |-> on_left, on_right |-> on_right, kind |-> kind]

Select_new(table) ==
    [table |-> table,
     aliases |-> [is_some |-> FALSE, val |-> EmptyAliases],
     fields |-> None,
     order |-> None,
     joins |-> None,
     conditions |-> None,
     groupings |-> None,
     havings |-> None,
     limit |-> 0,
     offset |-> 0]

Select_alias(self, table, alias) ==
    LET a == IF ~self.aliases.is_some THEN Some(EmptyAliases) ELSE self.aliases
    IN [self EXCEPT !.aliases = Some(aliases_insert(a.val, table, alias))]

\* `for field in fields { current_fields.push(field); }`
Select_fields(self, fields) ==
    LET f == init_if_none(self.fields)
    IN [self EXCEPT !.fields = Some(f.val \o fields)]

Select_filter(self, expr) ==
    LET c == init_if_none(self.conditions)
    IN [self EXCEPT !.conditions = Some(Append(c.val, expr))]

Select_group_by(self, val) ==
    LET g == init_if_none(self.groupings)
    IN [self EXCEPT !.groupings = Some(Append(g.val, val))]

Select_having(self, expr) ==
    LET h == init_if_none(self.havings)
    IN [self EXCEPT !.havings = Some(Append(h.val, expr))]

Select_order_by(self, expr, direction) ==
    LET o == init_if_none(self.order)
    IN [self EXCEPT !.order = Some(Append(o.val, <<expr, direction>>))]

Select_join(self, table, on_left, on_right, kind) ==
    LET j == init_if_none(self.joins)
    IN [self EXCEPT !.joins = Some(Append(j.val, JoinClause(table, on_left, on_right, kind)))]

Select_limit(self, limit) == [self EXCEPT !.limit = limit]

Select_offset(self, offset) == [self EXCEPT !.offset = offset]

\* lines 364-371: "SELECT " and the field list, or "*"
Select_build_fields(self) ==
    Cat(Str(<<"SELECT ">>),
        IF self.fields.is_some THEN join(self.fields.val, ", ") ELSE Str(<<"*">>))

\* lines 376-381 and 393-398: " AS <alias>" when aliases holds the table
Select_build_alias(self, table) ==
    IF self.aliases.is_some /\ aliases_get(self.aliases.val, table).is_some
    THEN Str(<<" AS ", aliases_get(self.aliases.val, table).val>>)
    ELSE Str(<<>>)

\* lines 373-381: " FROM <table>" [" AS <alias>"]
Select_build_from(self) ==
    CatAll(<<Str(<<" FROM ">>), Str(<<self.table>>), Select_build_alias(self, self.table)>>)

\* lines 385-403: one iteration of `for join in joins.iter()`
Select_build_join(self, jn) ==
    CatAll(<<Str(<<IF jn.kind = "Left" THEN " LEFT" ELSE " INNER">>),
             Str(<<" JOIN ">>),
             Str(<<jn.table>>),
             Select_build_alias(self, jn.table),
             Str(<<" ON ">>),
             Str(<<jn.on_left>>),
             Str(<<" = ">>),
             Str(<<jn.on_right>>)>>)

\* lines 383-405
Select_build_joins(self) ==
    IF self.joins.is_some
    THEN CatAll([i \in 1..Len(self.joins.val) |-> Select_build_join(self, self.joins.val[i])])
    ELSE Str(<<>>)

\* lines 407-410
Select_build_where(self) ==
    IF self.conditions.is_some
    THEN Cat(Str(<<" WHERE ">>), join(self.conditions.val, " AND "))
    ELSE Str(<<>>)

\* lines 412-415
Select_build_group_by(self) ==
    IF self.groupings.is_some
    THEN Cat(Str(<<" GROUP BY ">>), join(self.groupings.val, ", "))
    ELSE Str(<<>>)

\* lines 417-420
Select_build_having(self) ==
    IF self.havings.is_some
    THEN Cat(Str(<<" HAVING ">>), join(self.havings.val, " AND "))
    ELSE Str(<<>>)

\* lines 425-430: one iteration of `for item in order.iter()`
Select_build_order_item(item) ==
    Str(<<item[1], IF item[2] = "Asc" THEN " ASC" ELSE " DESC">>)

\* lines 422-432
Select_build_order(self) ==
    IF self.order.is_some
    THEN Cat(Str(<<" ORDER BY ">>),
             CatAll([i \in 1..Len(self.order.val) |-> Select_build_order_item(self.order.val[i])]))
    ELSE Str(<<>>)

\* lines 434-437
Select_build_limit(self) ==
    IF self.limit # 0 THEN Str(<<" LIMIT ">> \o to_string(self.limit)) ELSE Str(<<>>)

\* lines 439-442
Select_build_offset(self) ==
    IF self.offset # 0 THEN Str(<<" OFFSET ">> \o to_string(self.offset)) ELSE Str(<<>>)

\* Select_build with the HAVING section rendered before the GROUP BY section
Select_build_having_first(self) ==
    CatAll(<<Select_build_fields(self),
             Select_build_from(self),
             Select_build_joins(self),
             Select_build_where(self),
             Select_build_having(self),
             Select_build_group_by(self),
             Select_build_order(self),
             Select_build_limit(self),
             Select_build_offset(self),
             Str(<<";">>)>>)

Select_build(self) ==
    CatAll(<<Select_build_fields(self),
             Select_build_from(self),
             Select_build_joins(self),
             Select_build_where(self),
             Select_build_group_by(self),
             Select_build_having(self),
             Select_build_order(self),
             Select_build_limit(self),
             Select_build_offset(self),
             Str(<<";">>)>>)

\* a Display that leaves out the last token of the query, the ';'
Select_fmt_unterminated(self, f) ==
    Cat(f, [Select_build(self) EXCEPT !.s = SubSeq(@, 1, Len(@) - 1)])

Select_fmt(self, f) == Cat(f, Select_build(self))

-----------------------------------------------------------------------------
(* Update *)

Update_new(table) ==
    [table |-> table, values |-> HashMap_new, conditions |-> None, returns |-> None]

Update_set(self, field, value) ==
    {[self EXCEPT !.values = m] : m \in HashMap_insert(self.values, field, value)}

Update_returning(self, field) ==
    LET r == init_if_none(self.returns)
    IN [self EXCEPT !.returns = Some(Append(r.val, field))]

Update_filter(self, expr) ==
    LET c == init_if_none(self.conditions)
    IN [self EXCEPT !.conditions = Some(Append(c.val, expr))]

\* lines 503-513: the closure mapping (field, value) to "field = value"
Update_build_assignment(entry) == <<entry[1], " = ", entry[2]>>

\* Update_build with the assignments separated by a comma
Update_build_comma(self) ==
    LET assignments == [i \in 1..Len(self.values) |-> Update_build_assignment(self.values[i])]
    IN CatAll(<<Str(<<"UPDATE ">>),
                Str(<<self.table>>),
                Str(<<" SET ">>),
                Str(slice_join(assignments, ", ")),
                IF self.conditions.is_some
                THEN Cat(Str(<<" WHERE ">>), join(self.conditions.val, " AND "))
                ELSE Str(<<>>),
                IF self.returns.is_some
                THEN Cat(Str(<<" RETURNING ">>), join(self.returns.val, ", "))
                ELSE Str(<<>>),
                Str(<<";">>)>>)

Update_build(self) ==
    LET assignments == [i \in 1..Len(self.values) |-> Update_build_assignment(self.values[i])]
    IN CatAll(<<Str(<<"UPDATE ">>),
                Str(<<self.table>>),
                Str(<<" SET ">>),
                Str(slice_join(assignments, " AND ")),
                IF self.conditions.is_some
                THEN Cat(Str(<<" WHERE ">>), join(self.conditions.val, " AND "))
                ELSE Str(<<>>),
                IF self.returns.is_some
                THEN Cat(Str(<<" RETURNING ">>), join(self.returns.val, ", "))
                ELSE Str(<<>>),
                Str(<<";">>)>>)

Update_fmt(self, f) == Cat(f, Update_build(self))

-----------------------------------------------------------------------------
(* The caller: constructs one builder, chains configuration calls on it,   *)
(* and renders it with build() or through Display at any point.            *)

NoCalls ==
    [set |-> <<>>, filter |-> <<>>, returning |-> <<>>, alias |-> <<>>, fields |-> <<>>,
     group_by |-> <<>>, having |-> <<>>, order_by |-> <<>>, join |-> <<>>,
     limit |-> <<>>, offset |-> <<>>]

NumCalls ==
    Len(calls.set) + Len(calls.filter) + Len(calls.returning) + Len(calls.alias)
    + Len(calls.fields) + Len(calls.group_by) + Len(calls.having) + Len(calls.order_by)
    + Len(calls.join) + Len(calls.limit) + Len(calls.offset)

NoOut == [built |-> FALSE, via |-> "none", res |-> Str(<<>>)]

Built(via, res) == [built |-> TRUE, via |-> via, res |-> res]

\* delete(table) / insert(table) / select(table) / update(table), lines 534-551
Init ==
    /\ overflow_checks \in BOOLEAN
    /\ active \in Kinds
    /\ \E table \in Tables :
          /\ del = Delete_new(table)
          /\ ins = Insert_new(table)
          /\ sel = Select_new(table)
          /\ upd = Update_new(table)
    /\ calls = NoCalls
    /\ last_call = "new"
    /\ out = NoOut
    /\ prev = NoOut

\* bookkeeping common to every configuration call
Called(method, arg) ==
    /\ NumCalls < MaxCalls
    /\ calls' = [calls EXCEPT ![method] = Append(@, arg)]
    /\ last_call' = method
    /\ out' = NoOut
    /\ prev' = NoOut
    /\ UNCHANGED overflow_checks
    /\ UNCHANGED active

DeleteFilter ==
    /\ active = "Delete"
    /\ \E expr \in Exprs :
          /\ del' = Delete_filter(del, expr)
          /\ Called("filter", expr)
    /\ UNCHANGED <<ins, sel, upd>>

DeleteBuild ==
    /\ active = "Delete"
    /\ out' = Built("build", Delete_build(del))
    /\ prev' = out
    /\ UNCHANGED <<overflow_checks, active, del, ins, sel, upd, calls, last_call>>

DeleteDisplay ==
    /\ active = "Delete"
    /\ out' = Built("display", Delete_fmt(del, Str(<<>>)))
    /\ prev' = out
    /\ UNCHANGED <<overflow_checks, active, del, ins, sel, upd, calls, last_call>>

InsertSet ==
    /\ active = "Insert"
    /\ \E field \in SetFields, value \in SetValues :
          /\ ins' \in Insert_set(ins, field, value)
          /\ Called("set", <<field, value>>)
    /\ UNCHANGED <<del, sel, upd>>

InsertReturning ==
    /\ active = "Insert"
    /\ \E field \in ReturnFields :
          /\ ins' = Insert_returning(ins, field)
          /\ Called("returning", field)
    /\ UNCHANGED <<del, sel, upd>>

InsertBuild ==
    /\ active = "Insert"
    /\ out' = Built("build", Insert_build(ins))
    /\ prev' = out
    /\ UNCHANGED <<overflow_checks, active, del, ins, sel, upd, calls, last_call>>

InsertDisplay ==
    /\ active = "Insert"
    /\ out' = Built("display", Insert_fmt(ins, Str(<<>>)))
    /\ prev' = out
    /\ UNCHANGED <<overflow_checks, active, del, ins, sel, upd, calls, last_call>>

SelectAlias ==
    /\ active = "Select"
    /\ \E a \in AliasArgs :
          /\ sel' = Select_alias(sel, a[1], a[2])
          /\ Called("alias", a)
    /\ UNCHANGED <<del, ins, upd>>

SelectFields ==
    /\ active = "Select"
    /\ \E fields \in FieldLists :
          /\ sel' = Select_fields(sel, fields)
          /\ Called("fields", fields)
    /\ UNCHANGED <<del, ins, upd>>

SelectFilter ==
    /\ active = "Select"
    /\ \E expr \in Exprs :
          /\ sel' = Select_filter(sel, expr)
          /\ Called("filter", expr)
    /\ UNCHANGED <<del, ins, upd>>

SelectGroupBy ==
    /\ active = "Select"
    /\ \E val \in Groupings :
          /\ sel' = Select_group_by(sel, val)
          /\ Called("group_by", val)
    /\ UNCHANGED <<del, ins, upd>>

SelectHaving ==
    /\ active = "Select"
    /\ \E expr \in Havings :
          /\ sel' = Select_having(sel, expr)
          /\ Called("having", expr)
    /\ UNCHANGED <<del, ins, upd>>

SelectOrderBy ==
    /\ active = "Select"
    /\ \E expr \in OrderExprs, direction \in Directions :
          /\ sel' = Select_order_by(sel, expr, direction)
          /\ Called("order_by", <<expr, direction>>)
    /\ UNCHANGED <<del, ins, upd>>

SelectJoin ==
    /\ active = "Select"
    /\ \E table \in JoinTables, on_left \in OnLefts, on_right \in OnRights, kind \in JoinKinds :
          /\ sel' = Select_join(sel, table, on_left, on_right, kind)
          /\ Called("join", JoinClause(table, on_left, on_right, kind))
    /\ UNCHANGED <<del, ins, upd>>

SelectLimit ==
    /\ active = "Select"
    /\ \E limit \in Numbers :
          /\ sel' = Select_limit(sel, limit)
          /\ Called("limit", limit)
    /\ UNCHANGED <<del, ins, upd>>

SelectOffset ==
    /\ active = "Select"
    /\ \E offset \in Numbers :
          /\ sel' = Select_offset(sel, offset)
          /\ Called("offset", offset)
    /\ UNCHANGED <<del, ins, upd>>

SelectBuild ==
    /\ active = "Select"
    /\ out' = Built("build", Select_build(sel))
    /\ prev' = out
    /\ UNCHANGED <<overflow_checks, active, del, ins, sel, upd, calls, last_call>>

SelectDisplay ==
    /\ active = "Select"
    /\ out' = Built("display", Select_fmt(sel, Str(<<>>)))
    /\ prev' = out
    /\ UNCHANGED <<overflow_checks, active, del, ins, sel, upd, calls, last_call>>

UpdateSet ==
    /\ active = "Update"
    /\ \E field \in SetFields, value \in SetValues :
          /\ upd' \in Update_set(upd, field, value)
          /\ Called("set", <<field, value>>)
    /\ UNCHANGED <<del, ins, sel>>

UpdateReturning ==
    /\ active = "Update"
    /\ \E field \in ReturnFields :
          /\ upd' = Update_returning(upd, field)
          /\ Called("returning", field)
    /\ UNCHANGED <<del, ins, sel>>

UpdateFilter ==
    /\ active = "Update"
    /\ \E expr \in Exprs :
          /\ upd' = Update_filter(upd, expr)
          /\ Called("filter", expr)
    /\ UNCHANGED <<del, ins, sel>>

UpdateBuild ==
    /\ active = "Update"
    /\ out' = Built("build", Update_build(upd))
    /\ prev' = out
    /\ UNCHANGED <<overflow_checks, active, del, ins, sel, upd, calls, last_call>>

UpdateDisplay ==
    /\ active = "Update"
    /\ out' = Built("display", Update_fmt(upd, Str(<<>>)))
    /\ prev' = out
    /\ UNCHANGED <<overflow_checks, active, del, ins, sel, upd, calls, last_call>>

Next ==
    \/ DeleteFilter \/ DeleteBuild \/ DeleteDisplay
    \/ InsertSet \/ InsertReturning \/ InsertBuild \/ InsertDisplay
    \/ SelectAlias \/ SelectFields \/ SelectFilter \/ SelectGroupBy \/ SelectHaving
    \/ SelectOrderBy \/ SelectJoin \/ SelectLimit \/ SelectOffset
    \/ SelectBuild \/ SelectDisplay
    \/ UpdateSet \/ UpdateReturning \/ UpdateFilter \/ UpdateBuild \/ UpdateDisplay

Spec == Init /\ [][Next]_vars

-----------------------------------------------------------------------------
(* Specifications restricted to one kind of builder *)

NextSelect ==
    \/ SelectAlias \/ SelectFields \/ SelectFilter \/ SelectGroupBy \/ SelectHaving
    \/ SelectOrderBy \/ SelectJoin \/ SelectLimit \/ SelectOffset
    \/ SelectBuild

InitSelect == Init /\ active = "Select"

\* a Select builder, rendered with build()
SpecSelect == InitSelect /\ [][NextSelect]_vars

NextSet ==
    \/ InsertSet \/ InsertReturning \/ InsertBuild \/ InsertDisplay
    \/ UpdateSet \/ UpdateReturning \/ UpdateFilter \/ UpdateBuild \/ UpdateDisplay

InitSet == Init /\ active \in {"Insert", "Update"}

\* the two builders with a field/value mapping, Insert and Update
SpecSet == InitSet /\ [][NextSet]_vars

\* a caller that configures little and renders, with build() and Display, at will
NextRender ==
    \/ NumCalls < MaxRenderCalls /\ DeleteFilter
    \/ NumCalls < MaxRenderCalls /\ InsertSet
    \/ NumCalls < MaxRenderCalls /\ InsertReturning
    \/ NumCalls < MaxRenderCalls /\ SelectAlias
    \/ NumCalls < MaxRenderCalls /\ SelectFields
    \/ NumCalls < MaxRenderCalls /\ SelectFilter
    \/ NumCalls < MaxRenderCalls /\ SelectGroupBy
    \/ NumCalls < MaxRenderCalls /\ SelectHaving
    \/ NumCalls < MaxRenderCalls /\ SelectOrderBy
    \/ NumCalls < MaxRenderCalls /\ SelectJoin
    \/ NumCalls < MaxRenderCalls /\ SelectLimit
    \/ NumCalls < MaxRenderCalls /\ SelectOffset
    \/ NumCalls < MaxRenderCalls /\ UpdateSet
    \/ NumCalls < MaxRenderCalls /\ UpdateReturning
    \/ NumCalls < MaxRenderCalls /\ UpdateFilter
    \/ DeleteBuild \/ DeleteDisplay
    \/ InsertBuild \/ InsertDisplay
    \/ SelectBuild \/ SelectDisplay
    \/ UpdateBuild \/ UpdateDisplay

SpecRender == Init /\ [][NextRender]_vars

-----------------------------------------------------------------------------
(* Vocabulary of the properties: what the caller did, and what the         *)
(* rendered token sequence looks like.                                     *)

Rendered == out.built /\ ~out.res.panic

\* the text rendered by the last build(): nothing when it panicked
Text == out.res.s

Positions(s, tok) == {i \in DOMAIN s : s[i] = tok}

Has(s, tok) == Positions(s, tok) # {}

First(s, tok) == CHOOSE i \in Positions(s, tok) : \A j \in Positions(s, tok) : i <= j

\* the fragments of seq with sep between consecutive ones
RECURSIVE Interleave(_, _)
Interleave(seq, sep) ==
    IF Len(seq) = 0 THEN <<>>
    ELSE IF Len(seq) = 1 THEN <<seq[1]>>
    ELSE <<seq[1], sep>> \o Interleave(Tail(seq), sep)

RECURSIVE Flatten(_)
Flatten(seqs) == IF Len(seqs) = 0 THEN <<>> ELSE seqs[1] \o Flatten(Tail(seqs))

\* the tokens that open a section after the FROM section and the joins
Closers == {" WHERE ", " GROUP BY ", " HAVING ", " ORDER BY ", " LIMIT ", " OFFSET ",
            " RETURNING ", ";"}

\* s from position p up to, not including, the first token of `stops` after p
Segment(s, p, stops) ==
    LET ends == {i \in p..Len(s) : s[i] \in stops}
        e == IF ends = {} THEN Len(s) + 1 ELSE CHOOSE i \in ends : \A j \in ends : i <= j
    IN SubSeq(s, p, e - 1)

\* the value of the last call of a one-argument setter, 0 before any call
LastOr0(args) == IF Len(args) = 0 THEN 0 ELSE args[Len(args)]

\* the keys of a sequence of (key, value) calls, and the value last given to a key
Keys(kvs) == {kvs[i][1] : i \in DOMAIN kvs}

LastValue(kvs, k) ==
    LET is == {i \in DOMAIN kvs : kvs[i][1] = k}
    IN kvs[CHOOSE i \in is : \A j \in is : j <= i][2]

\* the conditions / returns / values of the builder the caller drives
ActiveBuilder ==
    CASE active = "Delete" -> del
      [] active = "Insert" -> ins
      [] active = "Select" -> sel
      [] active = "Update" -> upd

-----------------------------------------------------------------------------
(* C1: for all four builders and after any sequence of configuration       *)
(* calls (none at all, or Select.fields with an empty list, included),     *)
(* build() completes and returns a string, and it never invokes the        *)
(* shared helper join(v, sep) on an empty sequence v.                      *)

C1_BuildNeverJoinsEmpty ==
    out.built =>
        /\ ~out.res.panic
        /\ \A i \in DOMAIN out.res.joined : Len(out.res.joined[i]) > 0

-----------------------------------------------------------------------------
(* C2: in every reachable state of every builder, each optional ordered    *)
(* sequence is either absent or non-empty.                                 *)

AbsentOrNonEmpty(opt) == opt.is_some => Len(opt.val) > 0

\* C2: every optional sequence of every builder is absent or non-empty
C2_SequencesAbsentOrNonEmpty ==
    /\ AbsentOrNonEmpty(del.conditions)
    /\ AbsentOrNonEmpty(ins.returns)
    /\ AbsentOrNonEmpty(sel.fields)
    /\ AbsentOrNonEmpty(sel.order)
    /\ AbsentOrNonEmpty(sel.joins)
    /\ AbsentOrNonEmpty(sel.groupings)
    /\ AbsentOrNonEmpty(sel.havings)
    /\ AbsentOrNonEmpty(sel.conditions)
    /\ AbsentOrNonEmpty(upd.conditions)
    /\ AbsentOrNonEmpty(upd.returns)

-----------------------------------------------------------------------------
(* C3: Select.build() renders its sections in the fixed order SELECT,      *)
(* FROM [AS], joins, WHERE, GROUP BY, HAVING, ORDER BY, LIMIT, OFFSET, ';' *)
(* whatever order the configuration methods were called in: the result is  *)
(* the one of a builder that received the same calls per clause in one     *)
(* fixed interleaving, and in a returned string GROUP BY / HAVING come     *)
(* after WHERE and before ORDER BY.                                        *)

RECURSIVE FoldCalls(_, _, _)
FoldCalls(Op(_, _), self, args) ==
    IF Len(args) = 0 THEN self ELSE FoldCalls(Op, Op(self, args[1]), Tail(args))

\* the builder that received the calls c clause by clause
ReplayCalls(c) ==
    LET s0 == Select_new(sel.table)
        s1 == FoldCalls(Select_offset, s0, c.offset)
        s2 == FoldCalls(Select_limit, s1, c.limit)
        s3 == FoldCalls(LAMBDA s, a : Select_order_by(s, a[1], a[2]), s2, c.order_by)
        s4 == FoldCalls(Select_having, s3, c.having)
        s5 == FoldCalls(Select_group_by, s4, c.group_by)
        s6 == FoldCalls(Select_filter, s5, c.filter)
        s7 == FoldCalls(LAMBDA s, a : Select_join(s, a.table, a.on_left, a.on_right, a.kind),
                        s6, c.join)
        s8 == FoldCalls(LAMBDA s, a : Select_alias(s, a[1], a[2]), s7, c.alias)
    IN FoldCalls(Select_fields, s8, c.fields)

ClauseByClause == ReplayCalls(calls)

SectionOrder ==
    <<"SELECT ", " FROM ", " JOIN ", " WHERE ", " GROUP BY ", " HAVING ", " ORDER BY ",
      " LIMIT ", " OFFSET ", ";">>

\* every token of an earlier section keyword precedes every token of a later one,
\* and only the join keyword repeats
SectionsInOrder(s) ==
    /\ \A i, j \in DOMAIN SectionOrder :
          i < j => \A p \in Positions(s, SectionOrder[i]), q \in Positions(s, SectionOrder[j]) :
                      p < q
    /\ \A i \in DOMAIN SectionOrder :
          SectionOrder[i] # " JOIN " => Cardinality(Positions(s, SectionOrder[i])) <= 1
    /\ Len(s) > 0 /\ s[1] = "SELECT " /\ s[Len(s)] = ";"
    /\ Has(s, " FROM ")

\* a section keyword is in the text iff its clause was configured
SectionsAsCalled(s) ==
    /\ Cardinality(Positions(s, " JOIN ")) = Len(calls.join)
    /\ Has(s, " WHERE ") <=> Len(calls.filter) > 0
    /\ Has(s, " GROUP BY ") <=> Len(calls.group_by) > 0
    /\ Has(s, " HAVING ") <=> Len(calls.having) > 0
    /\ Has(s, " ORDER BY ") <=> Len(calls.order_by) > 0
    /\ Has(s, " LIMIT ") <=> LastOr0(calls.limit) # 0
    /\ Has(s, " OFFSET ") <=> LastOr0(calls.offset) # 0

-----------------------------------------------------------------------------
(* C4: for Delete, Select and Update, after filter has been called with    *)
(* c1, ..., cn (n >= 1, in that order, interleaved with any other          *)
(* configuration calls), build() renders exactly one WHERE clause, whose   *)
(* text is ' WHERE c1 AND c2 AND ... AND cn': the fragments in call order, *)
(* ' AND ' only between consecutive fragments.                             *)

Filtered == active \in {"Delete", "Select", "Update"} /\ out.built /\ Len(calls.filter) > 0

\* the text holds one " WHERE ", followed by the conditions and then a closing token
WhereRendered(s) ==
    /\ Cardinality(Positions(s, " WHERE ")) = 1
    /\ LET p == First(s, " WHERE ")
           clause == <<" WHERE ">> \o Interleave(calls.filter, " AND ")
       IN /\ p + Len(clause) <= Len(s)
          /\ SubSeq(s, p, p + Len(clause) - 1) = clause
          /\ s[p + Len(clause)] \in Closers

\* C4: after filter calls c1..cn, build() renders one ' WHERE c1 AND ... AND cn'
C4_WhereClause == Filtered => WhereRendered(Text)

\* whenever build() returns a string after a filter call, the WHERE clause is as stated
WhereClauseOfReturnedText == (Filtered /\ ~out.res.panic) => WhereRendered(Text)

-----------------------------------------------------------------------------
(* C5: for every builder in every reachable state, the string returned by  *)
(* build() ends with exactly one ';', appended by the renderer as its last *)
(* token, and no clause section (WHERE, GROUP BY, HAVING, ORDER BY,        *)
(* RETURNING, LIMIT, OFFSET, the JOINs, Update's SET list, Insert's        *)
(* column/value lists) is rendered when its backing collection is absent   *)
(* or empty.                                                               *)

\* the optional sequence `field` of the driven builder is present and non-empty
Backed(field) ==
    /\ field \in DOMAIN ActiveBuilder
    /\ ActiveBuilder[field].is_some
    /\ Len(ActiveBuilder[field].val) > 0

EndsWithOneSemicolon(s) ==
    /\ Len(s) > 0
    /\ Positions(s, ";") = {Len(s)}

OptionalSectionsBacked(s) ==
    /\ Has(s, " WHERE ") => Backed("conditions")
    /\ Has(s, " GROUP BY ") => Backed("groupings")
    /\ Has(s, " HAVING ") => Backed("havings")
    /\ Has(s, " ORDER BY ") => Backed("order")
    /\ Has(s, " RETURNING ") => Backed("returns")
    /\ Has(s, " JOIN ") => Backed("joins")
    /\ Has(s, " LIMIT ") => (active = "Select" /\ sel.limit # 0)
    /\ Has(s, " OFFSET ") => (active = "Select" /\ sel.offset # 0)

ValueListsBacked(s) ==
    /\ Has(s, " SET ") => (active = "Update" /\ Len(upd.values) > 0)
    /\ Has(s, " (") => (active = "Insert" /\ Len(ins.values) > 0)
    /\ Has(s, ") VALUES (") => (active = "Insert" /\ Len(ins.values) > 0)

\* C5: a returned string ends with its only ';' and renders no section over an
\* absent or empty collection
C5_SemicolonAndNoEmptySection ==
    Rendered =>
        /\ EndsWithOneSemicolon(Text)
        /\ OptionalSectionsBacked(Text)
        /\ ValueListsBacked(Text)

\* what does hold: a returned string ends with its only ';', and the optional
\* sections are rendered only over a non-empty collection
SemicolonAndOptionalSectionsOfReturnedText ==
    Rendered => (EndsWithOneSemicolon(Text) /\ OptionalSectionsBacked(Text))

-----------------------------------------------------------------------------
(* C6: for Insert (and the SET list of Update), after at least one         *)
(* set(field, value) call, the rendered column list and value list have    *)
(* the same length, each distinct field appears exactly once, and the set  *)
(* of pairs (column at position i, value at position i) is the set of      *)
(* (field, last value passed to set for that field), for every iteration   *)
(* order of the mapping.                                                   *)

\* the items of a list rendered with a one-token separator
Items(seg) == [i \in 1..((Len(seg) + 1) \div 2) |-> seg[2 * i - 1]]

Separated(seg, sep) ==
    /\ Len(seg) % 2 = 1
    /\ \A i \in DOMAIN seg : i % 2 = 0 => seg[i] = sep

\* Insert: the tokens between " (" and ") VALUES (", and between ") VALUES (" and ")"
InsertColumnTokens == Segment(Text, First(Text, " (") + 1, {") VALUES ("})

InsertValueTokens == Segment(Text, First(Text, ") VALUES (") + 1, {")"})

\* Update: the tokens between " SET " and the next section, 'field = value' in fours
UpdateSetTokens == Segment(Text, First(Text, " SET ") + 1, Closers)

UpdateColumns == [i \in 1..((Len(UpdateSetTokens) + 1) \div 4) |-> UpdateSetTokens[4 * i - 3]]

UpdateValues == [i \in 1..((Len(UpdateSetTokens) + 1) \div 4) |-> UpdateSetTokens[4 * i - 1]]

\* columns and values pair up to the fields set and the value last set for each
PairsAsSet(columns, values) ==
    /\ Len(columns) = Len(values)
    /\ \A f \in Keys(calls.set) : Cardinality(Positions(columns, f)) = 1
    /\ {<<columns[i], values[i]>> : i \in DOMAIN columns}
         = {<<f, LastValue(calls.set, f)>> : f \in Keys(calls.set)}

\* C6: after a set call, the rendered columns and values pair up to the fields and
\* the value last set for each
C6_SetPairing ==
    (out.built /\ Len(calls.set) > 0) =>
        /\ ~out.res.panic
        /\ active = "Insert" =>
              /\ Has(Text, " (") /\ Has(Text, ") VALUES (") /\ Has(Text, ")")
              /\ Separated(InsertColumnTokens, ", ")
              /\ Separated(InsertValueTokens, ", ")
              /\ PairsAsSet(Items(InsertColumnTokens), Items(InsertValueTokens))
        /\ active = "Update" =>
              /\ Has(Text, " SET ")
              /\ Len(UpdateSetTokens) % 4 = 3
              /\ PairsAsSet(UpdateColumns, UpdateValues)

\* an Insert rendered after a field was set twice, to different values, and
\* another field set after it: the second field is enumerated first
C6_Witness ==
    /\ active = "Insert" /\ Rendered
    /\ Len(calls.set) = 3
    /\ calls.set[1][1] = calls.set[2][1] /\ calls.set[1][2] # calls.set[2][2]
    /\ calls.set[3][1] # calls.set[1][1]
    /\ Items(InsertColumnTokens) = <<calls.set[3][1], calls.set[1][1]>>

-----------------------------------------------------------------------------
(* C7: Update.build() renders 'UPDATE <table> SET ', the assignments       *)
(* 'field = value' separated by the literal ' AND ', then, if conditions   *)
(* are present, ' WHERE <conditions joined by " AND ">', then, if returns  *)
(* are present, ' RETURNING <fields joined by ", ">', then ';', whatever   *)
(* order set, filter and returning were called in.                        *)

\* the final (field, value) pairs in one of their enumeration orders
Enumerations == Perms({<<f, LastValue(calls.set, f)>> : f \in Keys(calls.set)})

Assignments(pairs) == Flatten(Interleave([i \in DOMAIN pairs |-> <<pairs[i][1], " = ", pairs[i][2]>>], <<" AND ">>))

UpdateText(pairs) ==
    <<"UPDATE ", upd.table, " SET ">>
    \o Assignments(pairs)
    \o (IF Len(calls.filter) > 0
        THEN <<" WHERE ">> \o Interleave(calls.filter, " AND ") ELSE <<>>)
    \o (IF Len(calls.returning) > 0
        THEN <<" RETURNING ">> \o Interleave(calls.returning, ", ") ELSE <<>>)
    \o <<";">>

\* C7: Update.build() renders UPDATE, SET with ' AND ' between assignments, WHERE,
\* RETURNING, ';' in that order
C7_UpdateText ==
    (active = "Update" /\ out.built) =>
        /\ ~out.res.panic
        /\ \E pairs \in Enumerations : Text = UpdateText(pairs)

\* returning was called before the two set calls, and is rendered after them
C7_Witness ==
    /\ active = "Update" /\ Rendered
    /\ last_call = "set"
    /\ Len(calls.returning) = 1
    /\ Len(upd.values) = 2
    /\ Has(Text, " AND ")
    /\ First(Text, " AND ") < First(Text, " RETURNING ")

-----------------------------------------------------------------------------
(* C8: for Select, limit(n) and offset(n) overwrite the stored value (last *)
(* call wins); build() renders ' LIMIT <limit>' iff the last limit value   *)
(* is non-zero and ' OFFSET <offset>' iff the last offset value is         *)
(* non-zero, independently, with LIMIT before OFFSET whatever the call     *)
(* order; never calling them, or a final limit(0) / offset(0), produces no *)
(* such clause.                                                            *)

DigitTokens == {"0", "1", "2", "3", "4", "5", "6", "7", "8", "9"}

DigitValue(tok) ==
    CASE tok = "0" -> 0 [] tok = "1" -> 1 [] tok = "2" -> 2 [] tok = "3" -> 3
      [] tok = "4" -> 4 [] tok = "5" -> 5 [] tok = "6" -> 6 [] tok = "7" -> 7
      [] tok = "8" -> 8 [] tok = "9" -> 9

\* the number a sequence of digit tokens reads as
RECURSIVE Decimal(_)
Decimal(digits) ==
    IF Len(digits) = 0 THEN 0
    ELSE 10 * Decimal(SubSeq(digits, 1, Len(digits) - 1)) + DigitValue(digits[Len(digits)])

\* keyword is in s iff n # 0, once, followed by the decimal digits of n
NumberClause(s, keyword, n) ==
    /\ Has(s, keyword) <=> n # 0
    /\ Cardinality(Positions(s, keyword)) <= 1
    /\ Has(s, keyword) =>
          LET digits == Segment(s, First(s, keyword) + 1, Closers)
          IN /\ Len(digits) > 0
             /\ \A i \in DOMAIN digits : digits[i] \in DigitTokens
             /\ digits[1] # "0"
             /\ Decimal(digits) = n

LimitOffsetRendered(s) ==
    /\ NumberClause(s, " LIMIT ", LastOr0(calls.limit))
    /\ NumberClause(s, " OFFSET ", LastOr0(calls.offset))
    /\ (Has(s, " LIMIT ") /\ Has(s, " OFFSET ")) => First(s, " LIMIT ") < First(s, " OFFSET ")

\* C8: build() renders ' LIMIT n' / ' OFFSET n' iff the last value set is non-zero,
\* LIMIT first
C8_LimitOffset == (active = "Select" /\ out.built) => LimitOffsetRendered(Text)

\* whenever build() returns a string, its LIMIT and OFFSET clauses are as stated
LimitOffsetOfReturnedText == (active = "Select" /\ Rendered) => LimitOffsetRendered(Text)

-----------------------------------------------------------------------------
(* C9: for Select, build() renders ' AS <alias>' immediately after the     *)
(* main table name iff an alias is recorded under the main table name, and *)
(* immediately after a joined table name iff an alias is recorded under    *)
(* that join's table name; an alias recorded for a name equal to neither   *)
(* leaves the output unchanged; the alias rendered is the one of the last  *)
(* alias call for that name, whether alias was called before or after the  *)
(* corresponding join.                                                     *)

HasAlias(table) == table \in Keys(calls.alias)

\* the i-th smallest element of a set of positions
Nth(P, i) == CHOOSE p \in P : Cardinality({q \in P : q < p}) = i - 1

\* s[p] is `table`, and ' AS <alias>' follows it iff an alias was recorded for it
AliasAfter(s, p, table) ==
    /\ p <= Len(s) /\ s[p] = table
    /\ HasAlias(table) <=> (p + 1 <= Len(s) /\ s[p + 1] = " AS ")
    /\ HasAlias(table) => (p + 2 <= Len(s) /\ s[p + 2] = LastValue(calls.alias, table))

\* ' AS ' follows the name of the main table
MainAliasRendered(s) ==
    /\ Has(s, " FROM ")
    /\ First(s, " FROM ") + 2 <= Len(s)
    /\ s[First(s, " FROM ") + 2] = " AS "

\* ' AS ' follows the name of the table of the i-th join
JoinAliasRendered(s, i) ==
    /\ Cardinality(Positions(s, " JOIN ")) >= i
    /\ Nth(Positions(s, " JOIN "), i) + 2 <= Len(s)
    /\ s[Nth(Positions(s, " JOIN "), i) + 2] = " AS "

Aliasable == {sel.table} \cup {calls.join[i].table : i \in DOMAIN calls.join}

\* the calls made, without the alias calls for a name that is no table of the query
CallsWithoutStrayAliases ==
    [calls EXCEPT !.alias = SelectSeq(calls.alias, LAMBDA a : a[1] \in Aliasable)]

AliasesRendered(s) ==
    /\ MainAliasRendered(s) <=> HasAlias(sel.table)
    /\ MainAliasRendered(s) => AliasAfter(s, First(s, " FROM ") + 1, sel.table)
    /\ \A i \in DOMAIN calls.join :
          /\ JoinAliasRendered(s, i) <=> HasAlias(calls.join[i].table)
          /\ JoinAliasRendered(s, i) =>
                AliasAfter(s, Nth(Positions(s, " JOIN "), i) + 1, calls.join[i].table)
    /\ Cardinality(Positions(s, " AS "))
         = Cardinality({i \in DOMAIN calls.join : HasAlias(calls.join[i].table)})
           + (IF HasAlias(sel.table) THEN 1 ELSE 0)

\* C9: build() renders ' AS <last alias>' after the main table and each joined table
\* iff an alias was recorded for that name, and nothing for other names
C9_Alias ==
    (active = "Select" /\ out.built) =>
        /\ AliasesRendered(Text)
        /\ out.res = Select_build(ReplayCalls(CallsWithoutStrayAliases))

\* whenever build() returns a string, its aliases are as stated
AliasesOfReturnedText ==
    (active = "Select" /\ Rendered) =>
        /\ AliasesRendered(Text)
        /\ out.res = Select_build(ReplayCalls(CallsWithoutStrayAliases))

-----------------------------------------------------------------------------
(* C10: for Select, after join has been called k >= 1 times, build()       *)
(* renders exactly k join sections in call order, each ' LEFT JOIN' or     *)
(* ' INNER JOIN' by its kind, then ' <table>' [' AS <alias>']              *)
(* ' ON <on_left> = <on_right>', all after the FROM section and before the *)
(* WHERE section.                                                          *)

JoinText(j) ==
    <<IF j.kind = "Left" THEN " LEFT" ELSE " INNER", " JOIN ", j.table>>
    \o (IF HasAlias(j.table) THEN <<" AS ", LastValue(calls.alias, j.table)>> ELSE <<>>)
    \o <<" ON ", j.on_left, " = ", j.on_right>>

JoinsRendered(s) ==
    LET expected == Flatten([i \in DOMAIN calls.join |-> JoinText(calls.join[i])])
        from_end == First(s, " FROM ") + 1 + (IF HasAlias(sel.table) THEN 2 ELSE 0)
    IN /\ Has(s, " FROM ")
       /\ Cardinality(Positions(s, " JOIN ")) = Len(calls.join)
       /\ from_end + Len(expected) + 1 <= Len(s)
       /\ SubSeq(s, from_end + 1, from_end + Len(expected)) = expected
       /\ s[from_end + Len(expected) + 1] \in Closers
       /\ Has(s, " WHERE ") => First(s, " WHERE ") > from_end + Len(expected)

Joined == active = "Select" /\ out.built /\ Len(calls.join) >= 1

\* C10: after k >= 1 join calls, build() renders the k join sections in call order
\* between the FROM section and the WHERE section
C10_Joins == Joined => JoinsRendered(Text)

\* whenever build() returns a string after a join call, its join sections are as stated
JoinsOfReturnedText == (Joined /\ ~out.res.panic) => JoinsRendered(Text)

-----------------------------------------------------------------------------
(* C12: for Select, after order_by has been called with (e1, d1), ...,     *)
(* (en, dn), n >= 1, build() renders ' ORDER BY ' followed by              *)
(* '<e1> <D1><e2> <D2>...<en> <Dn>' in call order, Di being 'ASC' or       *)
(* 'DESC' by di, with no separator between successive order items, placed  *)
(* after HAVING and before LIMIT.                                          *)

OrderItemText(item) == <<item[1], IF item[2] = "Asc" THEN " ASC" ELSE " DESC">>

\* s holds one " ORDER BY ", followed by the order items back to back, then by
\* LIMIT, OFFSET or ';', and it comes after the HAVING section
OrderRendered(s) ==
    /\ Cardinality(Positions(s, " ORDER BY ")) = 1
    /\ LET p == First(s, " ORDER BY ")
           clause == <<" ORDER BY ">>
                     \o Flatten([i \in DOMAIN calls.order_by |-> OrderItemText(calls.order_by[i])])
       IN /\ p + Len(clause) <= Len(s)
          /\ SubSeq(s, p, p + Len(clause) - 1) = clause
          /\ s[p + Len(clause)] \in {" LIMIT ", " OFFSET ", ";"}
          /\ \A k \in {" FROM ", " JOIN ", " WHERE ", " GROUP BY ", " HAVING "} :
                \A q \in Positions(s, k) : q < p
          /\ Has(s, " HAVING ") =>
                Segment(s, First(s, " HAVING "), {" ORDER BY "})
                  = <<" HAVING ">> \o Interleave(calls.having, " AND ")

Ordered == active = "Select" /\ out.built /\ Len(calls.order_by) >= 1

\* C12: after n >= 1 order_by calls, build() renders ' ORDER BY ' and the n items in
\* call order with nothing between them, after HAVING and before LIMIT
C12_OrderBy == Ordered => OrderRendered(Text)

\* whenever build() returns a string after an order_by call, its ORDER BY is as stated
OrderByOfReturnedText == (Ordered /\ ~out.res.panic) => OrderRendered(Text)

-----------------------------------------------------------------------------
(* C11: for every builder in every reachable state, build() is             *)
(* side-effect-free and idempotent: it leaves every field of the builder   *)
(* unchanged, and calling build() twice with no configuration call in      *)
(* between returns identical strings (the same column/value enumeration    *)
(* order for Insert and Update included); rendering through the Display    *)
(* conversion returns the same string as build().                          *)

\* what build() gives on the builder the caller drives
Build ==
    CASE active = "Delete" -> Delete_build(del)
      [] active = "Insert" -> Insert_build(ins)
      [] active = "Select" -> Select_build(sel)
      [] active = "Update" -> Update_build(upd)

\* a step that renders: the builders keep every field, the outcome is the outcome of
\* the render before it when no configuration call came between, and a Display gives
\* what build() gives (a panic is one outcome, the same for both)
RenderStep ==
    out'.built =>
        /\ <<del, ins, sel, upd>>' = <<del, ins, sel, upd>>
        /\ out.built => out'.res = out.res
        /\ out'.via = "display" => out'.res = Build

RendersAgree == (prev.built /\ out.built) => prev.res = out.res

====
